---- MODULE Spec2Model ----
(***************************************************************************)
(* A model of ttt, a terminal typing test: the session state machine of    *)
(* App (src/src/app.rs) driven by the poll loop of main (src/src/main.rs), *)
(* and the layout / cursor / scroll pipeline of App::draw_ui               *)
(* (src/src/helpers.rs).                                                   *)
(*                                                                         *)
(* A text is a sequence of Unicode code points; an Option is the empty     *)
(* sequence (None) or a one-element sequence (Some).  Glyph indices, rows  *)
(* and columns are 0-based as in the source; TLA+ sequences are 1-based.   *)
(***************************************************************************)
EXTENDS Integers, Sequences, FiniteSets, TLC

VARIABLES
    \* ---- App (app.rs:17-24) and the poll loop of main (main.rs:41-53)
    source,        \* App.source: TextSource
    target,        \* App.target: String
    input,         \* App.input: tui_input::Input, its value and cursor
    started_at,    \* App.started_at: Option<Instant>
    finished_at,   \* App.finished_at: Option<Instant>
    count,         \* App.count
    now,           \* the monotonic clock read by Instant::now()
    key,           \* the event the last loop iteration read (NoKey: poll timed out)
    running,       \* FALSE once the loop has left through Esc
    \* ---- one rendering of the typed panel, the locals of App::draw_ui
    text,                  \* the text handed to layout_text
    typed_width,           \* the width handed to layout_text
    typed_layout,          \* the Layout (a Vec of rows of Glyphs)
    cursor_idx,            \* the cursor index handed to cursor_row_col_from_layout
    cursor_pos,            \* (cursor_row, cursor_col)
    typed_visible_height,  \* the height of the typed panel
    scroll_y,              \* the scroll offset
    pc,                    \* how far the rendering has got
    \* ---- one call of the row builders of helpers.rs on the layout of `text`
    arg_layout,            \* layout: the Layout handed to the builder
    arg_typed,             \* typed: the typed string handed to the builder
    arg_scroll_y,          \* scroll_y as handed to the builder
    arg_visible_height,    \* visible_height as handed to the builder
    lines_out,             \* what build_target_lines_from_layout did
    typed_visible,         \* what build_typed_visible_from_layout did
    build_pc               \* how far the call has got

appvars == <<source, target, input, started_at, finished_at, count>>
loopvars == <<now, key, running>>
drawvars == <<text, typed_width, typed_layout, cursor_idx, cursor_pos,
              typed_visible_height, scroll_y, pc>>
buildvars == <<arg_layout, arg_typed, arg_scroll_y, arg_visible_height,
               lines_out, typed_visible, build_pc>>
vars == <<appvars, loopvars, drawvars, buildvars>>

-----------------------------------------------------------------------------
(* Bounds of the model *)

MaxTime == 2
MaxCount == 2
MaxLen == 6
MaxWidth == 4
MaxHeight == 3
MaxBuildLen == 3

-----------------------------------------------------------------------------
(* Characters, strings, options *)

Space == 32

\* ' ', 'a' and the two-byte U+00E9
Alphabet == {32, 97, 233}

U16 == 2 ^ 16

None == <<>>
Some(t) == <<t>>

Max(a, b) == IF a >= b THEN a ELSE b
Min(a, b) == IF a <= b THEN a ELSE b

saturating_sub(a, b) == IF a >= b THEN a - b ELSE 0

\* char::len_utf8
len_utf8(c) ==
    IF c < 128 THEN 1 ELSE IF c < 2048 THEN 2 ELSE IF c < 65536 THEN 3 ELSE 4

\* str::len: the length in bytes of the UTF-8 encoding
RECURSIVE str_len(_)
str_len(s) == IF s = <<>> THEN 0 ELSE len_utf8(Head(s)) + str_len(Tail(s))

\* str::chars().count()
chars_count(s) == Len(s)

-----------------------------------------------------------------------------
(* The typed buffer: tui_input::Input *)

InputDefault == [value |-> <<>>, cursor |-> 0]

InsertChar(inp, c) ==
    [value  |-> SubSeq(inp.value, 1, inp.cursor) \o <<c>>
                  \o SubSeq(inp.value, inp.cursor + 1, Len(inp.value)),
     cursor |-> inp.cursor + 1]

DeletePrevChar(inp) ==
    IF inp.cursor = 0 THEN inp
    ELSE [value  |-> SubSeq(inp.value, 1, inp.cursor - 1)
                       \o SubSeq(inp.value, inp.cursor + 1, Len(inp.value)),
          cursor |-> inp.cursor - 1]

-----------------------------------------------------------------------------
(* Key events *)

NoKey == <<"None", 0>>
KeyEsc == <<"Esc", 0>>
KeyEnter == <<"Enter", 0>>
KeyBackspace == <<"Backspace", 0>>
KeyLeft == <<"Left", 0>>
KeyChar(c) == <<"Char", c>>
KeyF(n) == <<"F", n>>

CharKeys == {KeyChar(c) : c \in Alphabet}
Keys == CharKeys \cup {KeyBackspace, KeyEnter, KeyLeft, KeyF(5), KeyF(1)}

-----------------------------------------------------------------------------
(* The text source *)

Fixed(t) == [kind |-> "Fixed", text |-> t, dict |-> <<>>]
RandomWords(d) == [kind |-> "RandomWords", text |-> <<>>, dict |-> d]

\* Vec<String>::join(" ")
RECURSIVE join(_)
join(ws) ==
    IF ws = <<>> THEN <<>>
    ELSE IF Len(ws) = 1 THEN ws[1]
    ELSE ws[1] \o <<Space>> \o join(Tail(ws))

\* The texts generate_text can return: count words, each drawn from the
\* dictionary at a random index, joined by single spaces.
generate_text(dictionary, n) ==
    {join([k \in 1..n |-> dictionary[draw[k]]]) :
        draw \in [1..n -> 1..Len(dictionary)]}

\* The match on the source in App::new and App::reset
NewTarget(src, n) ==
    IF src.kind = "RandomWords" THEN generate_text(src.dict, n) ELSE {src.text}

\* The sources of the model: fixed texts (empty, one-byte and two-byte
\* characters, with a space) and the dictionary of the words "a" and "b".
Sources ==
    {Fixed(t) : t \in {<<>>, <<97, 97>>, <<233>>, <<97, 32, 233>>, <<97, 97, 97, 97>>}}
        \cup {RandomWords(<<<<97>>, <<98>>>>)}

-----------------------------------------------------------------------------
(* App: the session state machine *)

Self == [source |-> source, target |-> target, input |-> input,
         started_at |-> started_at, finished_at |-> finished_at, count |-> count]

\* App::new
AppNew(src, n) ==
    {[source |-> src, target |-> t, input |-> InputDefault,
      started_at |-> None, finished_at |-> None, count |-> n] :
        t \in NewTarget(src, n)}

\* A reset that leaves the start timestamp in place.
reset_keeps_start(app) ==
    {[app EXCEPT !.target = t, !.input = InputDefault, !.finished_at = None] :
        t \in NewTarget(app.source, app.count)}

\* App::reset; the set of the states it can leave
reset(app) ==
    {[app EXCEPT !.target = t, !.input = InputDefault,
                 !.started_at = None, !.finished_at = None] :
        t \in NewTarget(app.source, app.count)}

\* the match on key.code while not finished (app.rs:68-79)
handle_key_code(app, k) ==
    IF k[1] = "Char" THEN {[app EXCEPT !.input = InsertChar(app.input, k[2])]}
    ELSE IF k = KeyF(5) THEN reset(app)
    ELSE IF k = KeyBackspace THEN {[app EXCEPT !.input = DeletePrevChar(app.input)]}
    ELSE {app}

\* A finished branch that lets the editing keys through.
handle_key_finished_edits(app, k) ==
    IF k = KeyEnter THEN reset(app) ELSE handle_key_code(app, k)

\* handle_key while finished_at is set (app.rs:54-62)
handle_key_finished(app, k) ==
    IF k = KeyEnter THEN reset(app) ELSE {app}

\* the first keystroke starts the clock (app.rs:64-66)
start_clock(app, t) ==
    IF app.started_at = None THEN [app EXCEPT !.started_at = Some(t)] ELSE app

\* the end test, on the lengths in bytes (app.rs:81-84)
check_finished(app, t) ==
    IF str_len(app.input.value) >= str_len(app.target)
    THEN [app EXCEPT !.finished_at = Some(t)]
    ELSE app

\* App::handle_key; the set of the states it can leave
handle_key(app, k, t) ==
    IF app.finished_at # None
    THEN handle_key_finished(app, k)
    ELSE {check_finished(a, t) : a \in handle_key_code(start_clock(app, t), k)}

-----------------------------------------------------------------------------
(* App::stats.  A float is kept as the exact fraction n / d; a duration is *)
(* a whole number of clock ticks (seconds).  The casts `as u32` of the two *)
(* counts are the identity below 2^32 characters.                          *)

Rat(n, d) == [n |-> n, d |-> d]
RatEq(a, b) == a.n * b.d = b.n * a.d
RatLe(a, b) == a.n * b.d <= b.n * a.d

\* Instant::duration_since, which saturates at zero
duration_since(later, earlier) == saturating_sub(later, earlier)

\* A count of the positions where the characters differ.
RECURSIVE count_unequal(_, _)
count_unequal(a, b) ==
    IF a = <<>> \/ b = <<>> THEN 0
    ELSE (IF Head(a) # Head(b) THEN 1 ELSE 0) + count_unequal(Tail(a), Tail(b))

\* a.chars().zip(b.chars()).filter(|(a, b)| a == b).count() (app.rs:91-96)
RECURSIVE count_equal(_, _)
count_equal(a, b) ==
    IF a = <<>> \/ b = <<>> THEN 0
    ELSE (IF Head(a) = Head(b) THEN 1 ELSE 0) + count_equal(Tail(a), Tail(b))

\* total_typed (app.rs:88-89)
stats_total_typed(app) == chars_count(app.input.value)

\* A correct count that counts the mismatches.
stats_correct_counts_wrong(app) == count_unequal(app.target, app.input.value)

\* correct (app.rs:91-96)
stats_correct(app) == count_equal(app.target, app.input.value)

\* An elapsed time that keeps running after the finish.
stats_elapsed_keeps_running(app, t) ==
    IF app.started_at = None THEN 0 ELSE duration_since(t, app.started_at[1])

\* elapsed (app.rs:98-107)
stats_elapsed(app, t) ==
    IF app.started_at = None THEN 0
    ELSE IF app.finished_at # None
    THEN duration_since(app.finished_at[1], app.started_at[1])
    ELSE duration_since(t, app.started_at[1])

\* wpm (app.rs:109-118): (total_typed / 5) / (elapsed / 60)
stats_wpm(total_typed, elapsed) ==
    IF elapsed > 0 THEN Rat(total_typed * 60, 5 * elapsed) ELSE Rat(0, 1)

\* An accuracy that divides by total_typed without looking at it.
stats_accuracy_unguarded(correct, total_typed) == Rat(correct * 100, total_typed)

\* accuracy (app.rs:120-124)
stats_accuracy(correct, total_typed) ==
    IF total_typed > 0 THEN Rat(correct * 100, total_typed) ELSE Rat(100, 1)

\* App::stats at clock reading t
stats(app, t) ==
    [elapsed  |-> stats_elapsed(app, t),
     wpm      |-> stats_wpm(stats_total_typed(app), stats_elapsed(app, t)),
     accuracy |-> stats_accuracy(stats_correct(app), stats_total_typed(app))]

-----------------------------------------------------------------------------
(* helpers.rs: layout_text *)

Glyph(c, i) == [ch |-> c, idx |-> i]

\* lines.last_mut().unwrap().push(g)
push_last(lines, g) == [lines EXCEPT ![Len(lines)] = Append(@, g)]

\* the inner while of layout_text (helpers.rs:154-156): the end of the word
\* that starts at i
RECURSIVE word_end(_, _)
word_end(chars, i) ==
    IF i < Len(chars) /\ chars[i + 1] # Space THEN word_end(chars, i + 1) ELSE i

\* the for loop of layout_text (helpers.rs:164-171): the glyphs of
\* chars[j..e] pushed on the last row
RECURSIVE push_word(_, _, _, _)
push_word(lines, chars, j, e) ==
    IF j >= e THEN lines
    ELSE push_word(push_last(lines, Glyph(chars[j + 1], j)), chars, j + 1, e)

\* An iteration that appends a space past the right edge instead of wrapping.
layout_step_keeps_space(chars, width, st) ==
    IF chars[st.i + 1] = Space
    THEN IF st.col = 0
         THEN [st EXCEPT !.i = st.i + 1]
         ELSE [lines |-> push_last(st.lines, Glyph(Space, st.i)),
               col |-> st.col + 1, i |-> st.i + 1]
    ELSE LET e == word_end(chars, st.i)
             word_len == e - st.i
             wrap == st.col > 0 /\ st.col + word_len > width
             lines1 == IF wrap THEN Append(st.lines, <<>>) ELSE st.lines
             col1 == IF wrap THEN 0 ELSE st.col
         IN  [lines |-> push_word(lines1, chars, st.i, e),
              col |-> col1 + word_len, i |-> e]

\* An iteration that wraps a word one column too late.
layout_step_wraps_late(chars, width, st) ==
    IF chars[st.i + 1] = Space
    THEN IF st.col = 0
         THEN [st EXCEPT !.i = st.i + 1]
         ELSE IF st.col + 1 > width
         THEN [lines |-> Append(st.lines, <<>>), col |-> 0, i |-> st.i + 1]
         ELSE [lines |-> push_last(st.lines, Glyph(Space, st.i)),
               col |-> st.col + 1, i |-> st.i + 1]
    ELSE LET e == word_end(chars, st.i)
             word_len == e - st.i
             wrap == st.col > 0 /\ st.col + word_len > width + 1
             lines1 == IF wrap THEN Append(st.lines, <<>>) ELSE st.lines
             col1 == IF wrap THEN 0 ELSE st.col
         IN  [lines |-> push_word(lines1, chars, st.i, e),
              col |-> col1 + word_len, i |-> e]

\* An iteration that wraps at a space that would fill the row exactly.
layout_step_wraps_full_row(chars, width, st) ==
    IF chars[st.i + 1] = Space
    THEN IF st.col = 0
         THEN [st EXCEPT !.i = st.i + 1]
         ELSE IF st.col + 1 >= width
         THEN [lines |-> Append(st.lines, <<>>), col |-> 0, i |-> st.i + 1]
         ELSE [lines |-> push_last(st.lines, Glyph(Space, st.i)),
               col |-> st.col + 1, i |-> st.i + 1]
    ELSE LET e == word_end(chars, st.i)
             word_len == e - st.i
             wrap == st.col > 0 /\ st.col + word_len > width
             lines1 == IF wrap THEN Append(st.lines, <<>>) ELSE st.lines
             col1 == IF wrap THEN 0 ELSE st.col
         IN  [lines |-> push_word(lines1, chars, st.i, e),
              col |-> col1 + word_len, i |-> e]

\* One iteration of the outer while of layout_text (helpers.rs:131-172) on
\* the loop state st = (lines, col, i), with i < chars.len()
layout_step(chars, width, st) ==
    IF chars[st.i + 1] = Space
    THEN IF st.col = 0
         THEN [st EXCEPT !.i = st.i + 1]
         ELSE IF st.col + 1 > width
         THEN [lines |-> Append(st.lines, <<>>), col |-> 0, i |-> st.i + 1]
         ELSE [lines |-> push_last(st.lines, Glyph(Space, st.i)),
               col |-> st.col + 1, i |-> st.i + 1]
    ELSE LET e == word_end(chars, st.i)
             word_len == e - st.i
             wrap == st.col > 0 /\ st.col + word_len > width
             lines1 == IF wrap THEN Append(st.lines, <<>>) ELSE st.lines
             col1 == IF wrap THEN 0 ELSE st.col
         IN  [lines |-> push_word(lines1, chars, st.i, e),
              col |-> col1 + word_len, i |-> e]

RECURSIVE layout_loop(_, _, _)
layout_loop(chars, width, st) ==
    IF st.i < Len(chars) THEN layout_loop(chars, width, layout_step(chars, width, st))
    ELSE st

\* layout_text (helpers.rs:123-179)
layout_text(txt, width) ==
    LET w == Max(width, 1)
        lines == layout_loop(txt, w, [lines |-> <<<<>>>>, col |-> 0, i |-> 0]).lines
    IN  IF lines = <<>> THEN <<<<>>>> ELSE lines

-----------------------------------------------------------------------------
(* helpers.rs: cursor_row_col_from_layout *)

\* the (row, col) pairs, 1-based, of the glyphs whose idx is the cursor index
matches(layout, idx) ==
    {rc \in UNION {{<<r, c>> : c \in 1..Len(layout[r])} : r \in 1..Len(layout)} :
        layout[rc[1]][rc[2]].idx = idx}

\* the first match of the nested for loops (helpers.rs:182-188)
first_match(layout, idx) ==
    CHOOSE rc \in matches(layout, idx) :
        \A o \in matches(layout, idx) :
            rc[1] < o[1] \/ (rc[1] = o[1] /\ rc[2] <= o[2])

\* A locator whose fallback forgets the saturating_sub(1).
cursor_row_col_no_sub(layout, idx) ==
    IF matches(layout, idx) # {}
    THEN <<(first_match(layout, idx)[1] - 1) % U16,
           (first_match(layout, idx)[2] - 1) % U16>>
    ELSE IF Len(layout) > 0
    THEN <<Len(layout) % U16, Len(layout[Len(layout)]) % U16>>
    ELSE <<0, 0>>

\* A locator that returns the glyph's idx as the column.
cursor_row_col_idx_as_col(layout, idx) ==
    IF matches(layout, idx) # {}
    THEN <<(first_match(layout, idx)[1] - 1) % U16, idx % U16>>
    ELSE IF Len(layout) > 0
    THEN <<saturating_sub(Len(layout), 1) % U16, Len(layout[Len(layout)]) % U16>>
    ELSE <<0, 0>>

\* cursor_row_col_from_layout (helpers.rs:181-198); `as u16` truncates
cursor_row_col_from_layout(layout, idx) ==
    IF matches(layout, idx) # {}
    THEN <<(first_match(layout, idx)[1] - 1) % U16,
           (first_match(layout, idx)[2] - 1) % U16>>
    ELSE IF Len(layout) > 0
    THEN <<saturating_sub(Len(layout), 1) % U16, Len(layout[Len(layout)]) % U16>>
    ELSE <<0, 0>>

-----------------------------------------------------------------------------
(* app.rs: the scroll offset of draw_ui *)

\* A scroll offset that leaves the cursor one row below the window.
scroll_offset_off_by_one(total_lines, visible_height, cursor_row) ==
    LET max_scroll == saturating_sub(total_lines, visible_height)
        desired_scroll == saturating_sub(cursor_row, visible_height)
    IN  Min(desired_scroll, max_scroll)

\* max_scroll, desired_scroll and scroll_y of draw_ui (app.rs:161-163)
scroll_offset(total_lines, visible_height, cursor_row) ==
    LET max_scroll == saturating_sub(total_lines, visible_height)
        desired_scroll == saturating_sub(cursor_row, visible_height - 1)
    IN  Min(desired_scroll, max_scroll)

-----------------------------------------------------------------------------
(* helpers.rs: build_target_lines_from_layout and                          *)
(* build_typed_visible_from_layout.  A call leaves an outcome: it panicked *)
(* or it returned lines.                                                   *)

Newline == 10

\* the style of a glyph (helpers.rs:220-232): "fg_green" is
\* Style::default().fg(Color::Green), "bg_red" is .bg(Color::Red), "fg_red"
\* is .fg(Color::Red) and "default" is Style::default()
glyph_style(typed_chars, glyph) ==
    IF glyph.idx < Len(typed_chars)
    THEN IF typed_chars[glyph.idx + 1] = glyph.ch THEN "fg_green"
         ELSE IF glyph.ch = Space THEN "bg_red"
         ELSE "fg_red"
    ELSE "default"

\* Spans styled by the typed character at the glyph's column.
target_row_spans_by_col(typed_chars, row) ==
    [c \in 1..Len(row) |->
        [content |-> row[c].ch,
         style   |-> glyph_style(typed_chars, Glyph(row[c].ch, c - 1))]]

\* the spans of one row (helpers.rs:214-236)
target_row_spans(typed_chars, row) ==
    [c \in 1..Len(row) |->
        [content |-> row[c].ch, style |-> glyph_style(typed_chars, row[c])]]

\* layout[row].iter().map(|g| g.ch).collect() (helpers.rs:252)
collect_chars(row) == [c \in 1..Len(row) |-> row[c].ch]

\* Vec<String>::join("\n") (helpers.rs:256)
RECURSIVE join_lines(_)
join_lines(ls) ==
    IF ls = <<>> THEN <<>>
    ELSE IF Len(ls) = 1 THEN ls[1]
    ELSE ls[1] \o <<Newline>> \o join_lines(Tail(ls))

\* start and end of both builders (helpers.rs:208-209, 247-248).  The u16
\* sum scroll_y + visible_height panics when it overflows in a build with
\* overflow checks and wraps in a build without them.
build_range(layout, scroll, visible_height) ==
    IF scroll + visible_height < U16
    THEN {[panicked |-> FALSE, start |-> scroll,
           end |-> Min(scroll + visible_height, Len(layout) % U16)]}
    ELSE {[panicked |-> TRUE, start |-> 0, end |-> 0],
          [panicked |-> FALSE, start |-> scroll,
           end |-> Min((scroll + visible_height) % U16, Len(layout) % U16)]}

\* build_target_lines_from_layout (helpers.rs:200-240); its outcomes
build_target_lines_from_layout(layout, typed_chars, scroll, visible_height) ==
    {[panicked |-> rg.panicked,
      lines |-> [k \in 1..saturating_sub(rg.end, rg.start) |->
                    target_row_spans(typed_chars, layout[rg.start + k])]] :
        rg \in build_range(layout, scroll, visible_height)}

\* build_typed_visible_from_layout (helpers.rs:242-257); its outcomes, the
\* String as its characters
build_typed_visible_from_layout(layout, scroll, visible_height) ==
    {[panicked |-> rg.panicked,
      lines |-> join_lines([k \in 1..saturating_sub(rg.end, rg.start) |->
                              collect_chars(layout[rg.start + k])])] :
        rg \in build_range(layout, scroll, visible_height)}

-----------------------------------------------------------------------------
(* app.rs: App::draw_ui, as functions of the App and of the panel sizes *)

\* scroll_y of draw_ui (app.rs:152-163) for a typed panel of the given inner
\* width and height
draw_scroll_y(app, inner_width, inner_height) ==
    LET tl == layout_text(app.input.value, Max(inner_width, 1))
        cp == cursor_row_col_from_layout(tl, app.input.cursor)
    IN  scroll_offset(Len(tl) % U16, Max(inner_height, 1), cp[1])

\* target_layout of draw_ui (app.rs:167-170)
draw_target_layout(app, inner_width) == layout_text(app.target, Max(inner_width, 1))

-----------------------------------------------------------------------------
(* The poll loop of main *)

SetApp(a) ==
    /\ source' = a.source
    /\ target' = a.target
    /\ input' = a.input
    /\ started_at' = a.started_at
    /\ finished_at' = a.finished_at
    /\ count' = a.count

DrawIdle ==
    /\ text = <<>>
    /\ typed_width = 0
    /\ typed_layout = <<>>
    /\ cursor_idx = 0
    /\ cursor_pos = <<0, 0>>
    /\ typed_visible_height = 1
    /\ scroll_y = 0
    /\ pc = "idle"

NoOutcome == [panicked |-> FALSE, lines |-> <<>>]

BuildIdle ==
    /\ arg_layout = <<>>
    /\ arg_typed = <<>>
    /\ arg_scroll_y = 0
    /\ arg_visible_height = 1
    /\ lines_out = NoOutcome
    /\ typed_visible = NoOutcome
    /\ build_pc = "idle"

Init ==
    /\ \E src \in Sources, n \in 1..MaxCount : \E a \in AppNew(src, n) :
          /\ source = a.source
          /\ target = a.target
          /\ input = a.input
          /\ started_at = a.started_at
          /\ finished_at = a.finished_at
          /\ count = a.count
    /\ now = 0
    /\ key = NoKey
    /\ running = TRUE
    /\ DrawIdle
    /\ BuildIdle

\* poll returns a key other than Esc: App::handle_key (main.rs:49)
KeyEvent ==
    /\ running
    /\ \E k \in Keys : \E a \in handle_key(Self, k, now) :
          /\ key' = k
          /\ SetApp(a)
    /\ UNCHANGED <<now, running, drawvars, buildvars>>

\* poll returns Esc: the loop ends (main.rs:48)
Quit ==
    /\ running
    /\ key' = KeyEsc
    /\ running' = FALSE
    /\ UNCHANGED <<appvars, now, drawvars, buildvars>>

\* poll times out with no event; the clock has advanced (main.rs:45)
Tick ==
    /\ running
    /\ now < MaxTime
    /\ now' = now + 1
    /\ key' = NoKey
    /\ UNCHANGED <<appvars, running, drawvars, buildvars>>

Next == KeyEvent \/ Quit \/ Tick

Spec == Init /\ [][Next]_vars

-----------------------------------------------------------------------------
(* One rendering of the typed panel, on any text, width, cursor index and  *)
(* height: layout_text, then cursor_row_col_from_layout, then the scroll   *)
(* offset, as App::draw_ui chains them (app.rs:154-163).                   *)

Texts == UNION {[1..n -> Alphabet] : n \in 0..MaxLen}

\* "the quick fox", laid out at width 10
TheQuickFox == <<116, 104, 101, 32, 113, 117, 105, 99, 107, 32, 102, 111, 120>>
ScenarioWidths == {10}

RenderInit ==
    /\ \E a \in AppNew(Fixed(<<>>), 1) :
          /\ source = a.source
          /\ target = a.target
          /\ input = a.input
          /\ started_at = a.started_at
          /\ finished_at = a.finished_at
          /\ count = a.count
    /\ now = 0
    /\ key = NoKey
    /\ running = TRUE
    /\ text \in Texts \cup {TheQuickFox}
    /\ typed_width \in 0..MaxWidth \cup ScenarioWidths
    /\ typed_layout = <<>>
    /\ cursor_idx = 0
    /\ cursor_pos = <<0, 0>>
    /\ typed_visible_height = 1
    /\ scroll_y = 0
    /\ pc = "start"
    /\ BuildIdle

\* let typed_layout = layout_text(..) (app.rs:154)
DoLayout ==
    /\ pc = "start"
    /\ typed_layout' = layout_text(text, typed_width)
    /\ pc' = "laid"
    /\ UNCHANGED <<appvars, loopvars, buildvars, text, typed_width, cursor_idx, cursor_pos,
                   typed_visible_height, scroll_y>>

\* cursor_row_col_from_layout (app.rs:156-157) on the layout as it stands:
\* the rows of layout_text, or the Vec with no rows
DoLocate ==
    /\ pc \in {"start", "laid"}
    /\ \E idx \in 0..MaxLen + 1 :
          /\ cursor_idx' = idx
          /\ cursor_pos' = cursor_row_col_from_layout(typed_layout, idx)
    /\ pc' = "located"
    /\ UNCHANGED <<appvars, loopvars, buildvars, text, typed_width, typed_layout,
                   typed_visible_height, scroll_y>>

\* typed_visible_height, total_lines and scroll_y (app.rs:159-163)
DoScroll ==
    /\ pc = "located"
    /\ \E h \in 1..MaxHeight :
          /\ typed_visible_height' = h
          /\ scroll_y' = scroll_offset(Len(typed_layout) % U16, h, cursor_pos[1])
    /\ pc' = "scrolled"
    /\ UNCHANGED <<appvars, loopvars, buildvars, text, typed_width, typed_layout, cursor_idx,
                   cursor_pos>>

RenderNext == DoLayout \/ DoLocate \/ DoScroll

RenderSpec == RenderInit /\ [][RenderNext]_vars

-----------------------------------------------------------------------------
(* One call of each row builder, on the layout of any text at any width,   *)
(* with any typed string, scroll offset and height; the offsets and the    *)
(* heights include the ends of the u16 range.                              *)

\* "the", typed as "hte"
TheText == <<116, 104, 101>>
HteTyped == <<104, 116, 101>>

BuildTexts == UNION {[1..n -> Alphabet] : n \in 0..MaxBuildLen}
ScrollValues == {0, 1, 2, U16 - 1}
HeightValues == {1, 2, U16 - 1}

BuildInit ==
    /\ \E a \in AppNew(Fixed(<<>>), 1) :
          /\ source = a.source
          /\ target = a.target
          /\ input = a.input
          /\ started_at = a.started_at
          /\ finished_at = a.finished_at
          /\ count = a.count
    /\ now = 0
    /\ key = NoKey
    /\ running = TRUE
    /\ text \in BuildTexts \cup {TheText}
    /\ typed_width \in 1..MaxBuildLen
    /\ typed_layout = <<>>
    /\ cursor_idx = 0
    /\ cursor_pos = <<0, 0>>
    /\ typed_visible_height = 1
    /\ scroll_y = 0
    /\ pc = "idle"
    /\ arg_layout = <<>>
    /\ arg_typed \in BuildTexts \cup {HteTyped}
    /\ arg_scroll_y = 0
    /\ arg_visible_height = 1
    /\ lines_out = NoOutcome
    /\ typed_visible = NoOutcome
    /\ build_pc = "start"

\* the layout handed to the builders: layout_text(..) (app.rs:154, 170)
BuildLayout ==
    /\ build_pc = "start"
    /\ arg_layout' = layout_text(text, typed_width)
    /\ build_pc' = "laid"
    /\ UNCHANGED <<appvars, loopvars, drawvars, arg_typed, arg_scroll_y,
                   arg_visible_height, lines_out, typed_visible>>

\* build_target_lines_from_layout (app.rs:172-177)
BuildTargetLines ==
    /\ build_pc = "laid"
    /\ \E s \in ScrollValues, h \in HeightValues :
          /\ arg_scroll_y' = s
          /\ arg_visible_height' = h
          /\ lines_out' \in build_target_lines_from_layout(arg_layout, arg_typed, s, h)
    /\ build_pc' = "target_lines"
    /\ UNCHANGED <<appvars, loopvars, drawvars, arg_layout, arg_typed, typed_visible>>

\* build_typed_visible_from_layout (app.rs:184-185)
BuildTypedVisible ==
    /\ build_pc = "laid"
    /\ \E s \in ScrollValues, h \in HeightValues :
          /\ arg_scroll_y' = s
          /\ arg_visible_height' = h
          /\ typed_visible' \in build_typed_visible_from_layout(arg_layout, s, h)
    /\ build_pc' = "typed_visible"
    /\ UNCHANGED <<appvars, loopvars, drawvars, arg_layout, arg_typed, lines_out>>

BuildNext == BuildLayout \/ BuildTargetLines \/ BuildTypedVisible

BuildSpec == BuildInit /\ [][BuildNext]_vars

-----------------------------------------------------------------------------
(* The session states *)

Idle == started_at = None /\ finished_at = None
Active == started_at # None /\ finished_at = None
Finished == finished_at # None

EditKeys == CharKeys \cup {KeyBackspace}

\* The words of a text: its maximal runs between single spaces.
RECURSIVE split(_, _)
split(s, acc) ==
    IF s = <<>> THEN <<acc>>
    ELSE IF Head(s) = Space THEN <<acc>> \o split(Tail(s), <<>>)
    ELSE split(Tail(s), Append(acc, Head(s)))

Range(f) == {f[x] : x \in DOMAIN f}

-----------------------------------------------------------------------------
(* The claims about the session *)

\* C1: a keystroke handled while the session is not Finished sets finished_at
\* exactly when, after it, the typed buffer has at least as many characters
\* as the target, multi-byte characters included.
C1_FinishesOnCharCount ==
    [][(key' \in Keys /\ ~Finished)
          => (Finished' <=> chars_count(input'.value) >= chars_count(target'))]_vars

\* C2: from Idle, Active or Finished, handling F5 leaves the session Idle
\* with the effect of Reset: typed buffer empty, both timestamps unset.
C2_ResetKeyFromAnyState ==
    [][(key' = KeyF(5)) => (input' = InputDefault /\ Idle')]_vars

\* C3: while Finished, handling a character key or Backspace changes neither
\* the typed buffer, its cursor, the target, started_at nor finished_at.
C3_FinishedIgnoresEditing ==
    [][(Finished /\ key' \in EditKeys)
          => UNCHANGED <<input, target, started_at, finished_at>>]_vars

\* C3 witness: Backspace has been handled while Finished (with a non-empty
\* target Backspace never finishes a session, so it was handled in Finished).
C3_Witness == Finished /\ key = KeyBackspace /\ target # <<>> /\ input.value # <<>>

\* C4: in Idle a key other than a character or Backspace leaves started_at
\* unset, and a set started_at is not overwritten while the session is not
\* reset.
C4_OnlyEditingStartsClock ==
    [][/\ (key' \in Keys \ EditKeys /\ Idle) => started_at' = None
       /\ (started_at # None /\ started_at' # None) => started_at' = started_at]_vars

\* C5: Enter handled in Finished performs Reset: the typed buffer is empty,
\* both timestamps are unset, a fixed source gives the same target again and
\* a word list gives count words of the dictionary joined by single spaces.
C5_ConfirmResets ==
    [][(Finished /\ key' = KeyEnter)
          => /\ input' = InputDefault
             /\ Idle'
             /\ source' = source /\ count' = count
             /\ source.kind = "Fixed" => (target' = target /\ target' = source.text)
             /\ source.kind = "RandomWords"
                   => /\ Len(split(target', <<>>)) = count
                      /\ Range(split(target', <<>>)) \subseteq Range(source.dict)]_vars

\* C5 witness: Idle again right after Enter (Enter handled in Idle would have
\* set started_at), with the target of a word list.
C5_Witness ==
    Idle /\ key = KeyEnter /\ source.kind = "RandomWords" /\ Len(target) > 1

-----------------------------------------------------------------------------
(* The claims about the layout, the cursor and the scroll offset *)

RECURSIVE concat(_)
concat(rows) == IF rows = <<>> THEN <<>> ELSE Head(rows) \o concat(Tail(rows))

\* the layout has a glyph for the character at index i
present(i) == matches(typed_layout, i) # {}

\* the column, 0-based, of the glyph for the character at index i
col_of(i) == (CHOOSE rc \in matches(typed_layout, i) : TRUE)[2] - 1

\* the width layout_text works with
clamped_width == Max(typed_width, 1)

\* a space the layout drops: it meets an empty row (it is the first
\* character, or follows a dropped space) or it does not fit on the row of
\* the character before it
begins_row(i) ==
    /\ text[i + 1] = Space
    /\ \/ i = 0
       \/ ~present(i - 1)
       \/ col_of(i - 1) + 2 > clamped_width

\* C6: the glyphs of the rows, concatenated, have strictly increasing idx
\* and the input's character at that idx, and the characters without a
\* glyph are exactly the spaces that would have begun a row.
C6_LayoutIsSubsequence ==
    LET G == concat(typed_layout) IN
    pc = "laid" =>
        /\ \A k \in 1..Len(G) - 1 : G[k].idx < G[k + 1].idx
        /\ \A k \in 1..Len(G) :
              G[k].idx \in 0..Len(text) - 1 /\ G[k].ch = text[G[k].idx + 1]
        /\ \A i \in 0..Len(text) - 1 : ~present(i) <=> begins_row(i)

\* C6 witness: a layout that drops a space that did not fit after a
\* character it kept, and keeps another space.
C6_Witness ==
    /\ pc = "laid"
    /\ \E i \in 1..Len(text) - 1 :
          text[i + 1] = Space /\ present(i - 1) /\ ~present(i)
    /\ \E i \in 1..Len(text) - 1 : text[i + 1] = Space /\ present(i)

\* a row that is one whole word of the text and nothing else
single_word(row) ==
    /\ row # <<>>
    /\ \A c \in 1..Len(row) : row[c].ch # Space /\ row[c].idx = row[1].idx + c - 1
    /\ row[1].idx = 0 \/ text[row[1].idx] = Space
    /\ row[Len(row)].idx = Len(text) - 1 \/ text[row[Len(row)].idx + 2] = Space

\* C7: a row with more glyphs than the width holds exactly one word of the
\* text, longer than the width, from column 0, and nothing else.
C7_RowsFitWidth ==
    pc = "laid" =>
        \A r \in 1..Len(typed_layout) :
            Len(typed_layout[r]) > typed_width => single_word(typed_layout[r])

\* C7 witness: an over-long word on a row of its own between two other rows.
C7_Witness ==
    /\ pc = "laid"
    /\ typed_width >= 1
    /\ \E r \in 2..Len(typed_layout) - 1 : Len(typed_layout[r]) > typed_width

\* C8: the locator returns the row and column of the glyph whose idx is the
\* cursor index.
C8_LocateRoundTrip ==
    pc = "located" =>
        \A r \in 1..Len(typed_layout) : \A c \in 1..Len(typed_layout[r]) :
            typed_layout[r][c].idx = cursor_idx => cursor_pos = <<r - 1, c - 1>>

\* C8 witness: the cursor is on a glyph of a later row, after a dropped
\* character, at a column other than 0.
C8_Witness ==
    /\ pc = "located"
    /\ present(cursor_idx)
    /\ cursor_pos[1] >= 1 /\ cursor_pos[2] >= 1
    /\ \E i \in 0..cursor_idx : ~present(i)

\* C9: with no glyph at the cursor index the locator returns the last row
\* and its glyph count, and (0, 0) for a layout with no rows.
C9_LocateFallback ==
    (pc = "located" /\ ~present(cursor_idx)) =>
        cursor_pos = IF Len(typed_layout) = 0 THEN <<0, 0>>
                     ELSE <<Len(typed_layout) - 1,
                            Len(typed_layout[Len(typed_layout)])>>

\* C9 witness: the cursor points at a space the layout dropped, in a layout
\* of several rows.
C9_Witness ==
    /\ pc = "located"
    /\ cursor_idx < Len(text)
    /\ ~present(cursor_idx)
    /\ Len(typed_layout) >= 2
    /\ typed_layout[Len(typed_layout)] # <<>>

\* C10: for a layout of at least one row and a cursor row inside it the
\* scroll offset is within 0..max(0, total_rows - visible_height), is not
\* below the cursor row and leaves the cursor row inside the window.
C10_ScrollKeepsCursorVisible ==
    LET total_rows == Len(typed_layout)
        cursor_row == cursor_pos[1]
    IN  (pc = "scrolled" /\ total_rows >= 1 /\ cursor_row < total_rows) =>
            /\ 0 <= scroll_y
            /\ scroll_y <= Max(0, total_rows - typed_visible_height)
            /\ scroll_y <= cursor_row
            /\ cursor_row - scroll_y < typed_visible_height

\* C10 witness: the window has scrolled and the cursor is on a row that is
\* not the last one, in a window of more than one row.
C10_Witness ==
    /\ pc = "scrolled"
    /\ scroll_y >= 1
    /\ typed_visible_height >= 2
    /\ cursor_pos[1] < Len(typed_layout) - 1

-----------------------------------------------------------------------------
(* The claims about the statistics and the reachable session states *)

\* the stats App::draw_ui shows in the current state
Stats == stats(Self, now)

\* C12: stats divides by nothing that is zero; the accuracy is 100 when the
\* typed buffer is empty and the wpm is 0 when elapsed <= 0, as in Idle.
C12_StatsDefaults ==
    /\ Stats.wpm.d > 0 /\ Stats.accuracy.d > 0 /\ Stats.elapsed \in Nat
    /\ input.value = <<>> => RatEq(Stats.accuracy, Rat(100, 1))
    /\ Stats.elapsed <= 0 => RatEq(Stats.wpm, Rat(0, 1))
    /\ Idle => (Stats.elapsed = 0 /\ RatEq(Stats.wpm, Rat(0, 1)))

\* C12 witness: the buffer is empty again after the clock has started and
\* advanced.
C12_Witness ==
    /\ Active /\ input.value = <<>> /\ key = KeyBackspace /\ now > started_at[1]

\* the three cases of elapsed
ElapsedCases ==
    /\ (started_at # None /\ finished_at # None)
          => Stats.elapsed = finished_at[1] - started_at[1]
    /\ (started_at # None /\ finished_at = None)
          => Stats.elapsed = now - started_at[1]
    /\ (started_at = None /\ finished_at = None) => Stats.elapsed = 0

\* C13: elapsed is finished_at - started_at when both are set, now -
\* started_at when only started_at is set and 0 when neither is; a step that
\* leaves the session Finished leaves elapsed as it was.
C13_ElapsedFreezes ==
    [][/\ ElapsedCases /\ ElapsedCases'
       /\ (Finished /\ Finished') => Stats.elapsed' = Stats.elapsed]_vars

\* C13 witness: the clock has advanced since the session finished.
C13_Witness ==
    Finished /\ started_at # None /\ now > finished_at[1] /\ finished_at[1] > started_at[1]

\* C17: the correct count is the number of positions below both character
\* counts where typed and target agree, so it is at most total_typed and
\* the accuracy is between 0 and 100.
C17_CorrectCount ==
    LET typed == input.value
        agree == {i \in 1..Min(Len(typed), Len(target)) : typed[i] = target[i]}
    IN  /\ stats_correct(Self) = Cardinality(agree)
        /\ stats_correct(Self) <= stats_total_typed(Self)
        /\ RatLe(Rat(0, 1), Stats.accuracy)
        /\ RatLe(Stats.accuracy, Rat(100, 1))

\* C17 witness: some typed characters agree with the target and some do not.
C17_Witness ==
    /\ 0 < stats_correct(Self)
    /\ stats_correct(Self) < stats_total_typed(Self)

\* C18: finished_at is set only if started_at is set.
C18_FinishedImpliesStarted == Finished => started_at # None

\* C19: with a non-empty target the typed buffer never has more characters
\* than the target.
C19_TypedWithinTarget ==
    target # <<>> => chars_count(input.value) <= chars_count(target)

\* the rows, 1-based, of the target layout at width w with a glyph still to
\* be typed
rows_to_type(w) ==
    {r \in 1..Len(draw_target_layout(Self, w)) :
        \E c \in 1..Len(draw_target_layout(Self, w)[r]) :
            draw_target_layout(Self, w)[r][c].idx >= chars_count(input.value)}

\* the row, 0-based, of the next target glyph to type
next_row(w) == (CHOOSE r \in rows_to_type(w) : \A o \in rows_to_type(w) : r <= o) - 1

\* C20: while the session is not Finished, for panels of the same width, the
\* row of the next target glyph to type is inside the window
\* [scroll_y, scroll_y + target_visible_height) of the target panel.
C20_NextGlyphVisible ==
    ~Finished =>
        \A w \in 1..MaxWidth, typed_h \in 1..MaxHeight, target_h \in 1..MaxHeight :
            rows_to_type(w) # {} =>
                /\ draw_scroll_y(Self, w, typed_h) <= next_row(w)
                /\ next_row(w) < draw_scroll_y(Self, w, typed_h) + target_h

-----------------------------------------------------------------------------
(* The claims about layout_text on a given text and against the greedy     *)
(* algorithm of the specification                                          *)

\* the characters of a row
row_chars(row) == [c \in 1..Len(row) |-> row[c].ch]

\* the characters of the rows of the layout
layout_chars == [r \in 1..Len(typed_layout) |-> row_chars(typed_layout[r])]

\* C14 as stated: layout_text("the quick fox", 10) has exactly the rows
\* "the quick" and "fox".
C14_TheQuickFoxRows ==
    (pc = "laid" /\ text = TheQuickFox /\ typed_width = 10) =>
        layout_chars = <<SubSeq(TheQuickFox, 1, 9), SubSeq(TheQuickFox, 11, 13)>>

\* C14 amended: layout_text("the quick fox", 10) has exactly the rows
\* "the quick " (the space at index 9 fills the tenth column) and "fox".
C14_TheQuickFoxRowsWithSpace ==
    (pc = "laid" /\ text = TheQuickFox /\ typed_width = 10) =>
        /\ layout_chars = <<SubSeq(TheQuickFox, 1, 10), SubSeq(TheQuickFox, 11, 13)>>
        /\ typed_layout[1][10] = Glyph(Space, 9)

\* C14 witness: "the quick fox" has been laid out at width 10.
C14_Witness == pc = "laid" /\ text = TheQuickFox /\ typed_width = 10

\* The greedy algorithm as the specification words it: a space that does
\* not fit starts a new row and is looked at again on that row, where the
\* row is empty and the space is dropped; a word goes to a new row when the
\* row is not empty and the word does not fit on it.
RECURSIVE greedy(_, _, _, _, _)
greedy(chars, width, rows, col, i) ==
    IF i >= Len(chars) THEN rows
    ELSE IF chars[i + 1] = Space
    THEN IF col = 0 THEN greedy(chars, width, rows, col, i + 1)
         ELSE IF col + 1 > width THEN greedy(chars, width, Append(rows, <<>>), 0, i)
         ELSE greedy(chars, width,
                     [rows EXCEPT ![Len(rows)] = Append(@, Glyph(Space, i))],
                     col + 1, i + 1)
    ELSE LET stop == CHOOSE j \in i + 1..Len(chars) :
                        /\ \A k \in i + 1..j : chars[k] # Space
                        /\ j = Len(chars) \/ chars[j + 1] = Space
             word == [k \in 1..stop - i |-> Glyph(chars[i + k], i + k - 1)]
             fresh == col > 0 /\ col + Len(word) > width
         IN  IF fresh
             THEN greedy(chars, width, Append(rows, word), Len(word), stop)
             ELSE greedy(chars, width,
                         [rows EXCEPT ![Len(rows)] = @ \o word],
                         col + Len(word), stop)

\* the layout the specification asks for, the width clamped to 1 at least
specified_layout(txt, width) ==
    greedy(txt, IF width < 1 THEN 1 ELSE width, <<<<>>>>, 0, 0)

\* C16: layout_text returns the rows of the specified greedy algorithm, so
\* a space that does not fit is in neither row, and there is at least one
\* row.
C16_LayoutMatchesSpecification ==
    pc = "laid" =>
        /\ typed_layout = specified_layout(text, typed_width)
        /\ Len(typed_layout) >= 1

\* C16 witness: a space met on a row that is exactly full is dropped and the
\* character after it starts the next row.
C16_Witness ==
    /\ pc = "laid"
    /\ \E i \in 1..Len(text) - 2 :
          /\ text[i + 1] = Space
          /\ present(i - 1) /\ col_of(i - 1) + 1 = clamped_width
          /\ ~present(i)
          /\ present(i + 1) /\ col_of(i + 1) = 0

-----------------------------------------------------------------------------
(* The claims about the row builders *)

\* the style the claim gives the glyph g against the typed characters
claimed_style(g) ==
    IF g.idx + 1 \notin DOMAIN arg_typed THEN "default"
    ELSE IF arg_typed[g.idx + 1] = g.ch THEN "fg_green"
    ELSE IF g.ch = Space THEN "bg_red"
    ELSE "fg_red"

\* C11: every span of a visible target row carries the glyph's character
\* and the style decided by the typed character at the glyph's source
\* index: untyped, correct, incorrect-space or incorrect-letter; "hte"
\* typed against "the" gives incorrect, incorrect, correct.
C11_StyleBySourceIndex ==
    (build_pc = "target_lines" /\ ~lines_out.panicked) =>
        /\ \A k \in 1..Len(lines_out.lines) :
              LET row == arg_layout[arg_scroll_y + k]
                  spans == lines_out.lines[k]
              IN  /\ Len(spans) = Len(row)
                  /\ \A c \in 1..Len(row) :
                        /\ spans[c].content = row[c].ch
                        /\ spans[c].style = claimed_style(row[c])
        /\ (text = TheText /\ arg_typed = HteTyped /\ arg_scroll_y = 0)
              => /\ Len(lines_out.lines) = 1
                 /\ [c \in 1..3 |-> lines_out.lines[1][c].style]
                       = <<"fg_red", "fg_red", "fg_green">>

\* C11 witness: on a scrolled window a glyph is styled incorrect although
\* the typed character at its column would have matched it.
C11_Witness ==
    /\ build_pc = "target_lines" /\ ~lines_out.panicked
    /\ arg_scroll_y = 1
    /\ lines_out.lines # <<>>
    /\ lines_out.lines[1] # <<>>
    /\ lines_out.lines[1][1].style = "fg_red"
    /\ arg_typed[1] = lines_out.lines[1][1].content

\* the rows, 1-based, of the window [scroll_y, min(scroll_y +
\* visible_height, row count))
window_rows ==
    LET last == Min(arg_scroll_y + arg_visible_height, Len(arg_layout))
    IN  [k \in 1..saturating_sub(last, arg_scroll_y) |-> arg_layout[arg_scroll_y + k]]

\* C15: both builders return, without overflow, one output row per layout
\* row of the window and none when the window is empty.
C15_BuildersTotal ==
    /\ build_pc = "target_lines" =>
          /\ ~lines_out.panicked
          /\ Len(lines_out.lines) = Len(window_rows)
          /\ \A k \in 1..Len(window_rows) :
                [c \in 1..Len(lines_out.lines[k]) |-> lines_out.lines[k][c].content]
                    = collect_chars(window_rows[k])
    /\ build_pc = "typed_visible" =>
          /\ ~typed_visible.panicked
          /\ typed_visible.lines
                = join_lines([k \in 1..Len(window_rows) |-> collect_chars(window_rows[k])])

====
